---- MODULE Spec2Model ----
(***************************************************************************)
(* tools/prepare_assets.sh: the slug stage (manifest builder) and the      *)
(* optional rename stage.  Text (file names, paths, slugs) is modelled as  *)
(* sequences of one-character strings so that the string functions of the  *)
(* script (basename, splitext, slugify, zfill, the "-k" suffixes) are      *)
(* computed character by character.  Paths are relative to ROOT_DIR.       *)
(***************************************************************************)
EXTENDS Integers, Sequences, FiniteSets, TLC

(* ------------------------------ bounds -------------------------------- *)

\* greatest number of rows of images.csv
MaxRecords == 3

(* --------------------------- program constants ------------------------ *)

SLUG_START == 1
SLUG_PAD == 3

(* ------------------------------ characters ---------------------------- *)

LowerSeq == <<"a","b","c","d","e","f","g","h","i","j","k","l","m",
              "n","o","p","q","r","s","t","u","v","w","x","y","z">>
UpperSeq == <<"A","B","C","D","E","F","G","H","I","J","K","L","M",
              "N","O","P","Q","R","S","T","U","V","W","X","Y","Z">>
DigitSeq == <<"0","1","2","3","4","5","6","7","8","9">>

Range(f) == {f[i] : i \in DOMAIN f}

\* the class [a-zA-Z0-9] of the regular expression in slugify
IsAlnum(c) == c \in Range(LowerSeq) \cup Range(UpperSeq) \cup Range(DigitSeq)

\* str.lower() on one character
LowerChar(c) ==
    IF c \in Range(UpperSeq)
    THEN LowerSeq[CHOOSE i \in DOMAIN UpperSeq : UpperSeq[i] = c]
    ELSE c

\* str.lower()
Lower(s) == [i \in DOMAIN s |-> LowerChar(s[i])]

\* greatest index of character c in s, 0 when absent (str.rfind, 1-based)
RFind(s, c) ==
    LET I == {i \in DOMAIN s : s[i] = c}
    IN  IF I = {} THEN 0 ELSE CHOOSE i \in I : \A j \in I : j <= i

\* s[from..] and s[..to]
Drop(s, k) == SubSeq(s, k + 1, Len(s))
Take(s, k) == SubSeq(s, 1, k)

(* ------------------------------ os.path ------------------------------- *)

\* os.path.basename: what follows the last "/"
basename(p) == Drop(p, RFind(p, "/"))

\* os.path.dirname: what precedes the last "/" ("" when there is none)
dirname(p) == IF RFind(p, "/") = 0 THEN <<>> ELSE Take(p, RFind(p, "/") - 1)

\* os.path.join of two components
join(d, f) ==
    IF d = <<>> THEN f
    ELSE IF d[Len(d)] = "/" THEN d \o f
    ELSE d \o <<"/">> \o f

\* index at which os.path.splitext cuts p (Len(p) when there is no extension):
\* the last "." counts only if it comes after the last "/" and some character
\* of the basename before it is not a "."
SplitAt(p) ==
    LET sep == RFind(p, "/")
        dot == RFind(p, ".")
    IN  IF dot > sep /\ \E k \in (sep + 1)..(dot - 1) : p[k] # "."
        THEN dot - 1
        ELSE Len(p)

splitext(p) == <<Take(p, SplitAt(p)), Drop(p, SplitAt(p))>>

(* ------------------------------ numbers ------------------------------- *)

\* str(n) for n >= 0
RECURSIVE str(_)
str(n) == IF n < 10 THEN <<DigitSeq[n + 1]>>
          ELSE str(n \div 10) \o <<DigitSeq[(n % 10) + 1]>>

\* str.zfill(width) on a string of digits
RECURSIVE zfill(_, _)
zfill(s, width) == IF Len(s) >= width THEN s ELSE zfill(<<"0">> \o s, width)

(* ------------------------------ slugify ------------------------------- *)

\* re.sub(r"[^a-zA-Z0-9]+", "-", s): every maximal run of characters outside
\* the class becomes one "-"
RECURSIVE SubRuns(_, _)
SubRuns(s, inRun) ==
    IF s = <<>> THEN <<>>
    ELSE IF IsAlnum(Head(s)) THEN <<Head(s)>> \o SubRuns(Tail(s), FALSE)
    ELSE IF inRun THEN SubRuns(Tail(s), TRUE)
    ELSE <<"-">> \o SubRuns(Tail(s), TRUE)

\* str.strip("-")
RECURSIVE LStrip(_)
LStrip(s) == IF s # <<>> /\ Head(s) = "-" THEN LStrip(Tail(s)) ELSE s
RECURSIVE RStrip(_)
RStrip(s) == IF s # <<>> /\ s[Len(s)] = "-" THEN RStrip(Take(s, Len(s) - 1)) ELSE s
Strip(s) == RStrip(LStrip(s))

\* re.sub(r"-{2,}", "-", s)
RECURSIVE Collapse(_)
Collapse(s) ==
    IF Len(s) < 2 THEN s
    ELSE IF s[1] = "-" /\ s[2] = "-" THEN Collapse(Tail(s))
    ELSE <<Head(s)>> \o Collapse(Tail(s))

slugify(name) ==
    LET base == splitext(basename(name))[1]
        s    == Lower(Strip(SubRuns(base, FALSE)))
    IN  Collapse(s)

(* ------------------------- the inputs of a run ------------------------ *)

F_a     == <<"a",".","j","p","g">>
F_da    == <<"d","/","a",".","j","p","g">>
F_photo == <<"M","y"," ","P","h","o","t","o","!","!",".","j","p","g">>
F_bang  == <<"!","!",".","j","p","g">>
F_hero  == <<"h","e","r","o",".","j","p","g">>

\* image files of ROOT_DIR that find may list, relative to it
FileNames == {F_a, F_da, F_photo, F_bang}

\* "%w,%h" as identify reports it for each file
Dims(f) ==
    CASE f = F_a     -> <<"100", "100">>
      [] f = F_da    -> <<"50", "50">>
      [] f = F_photo -> <<"640", "480">>
      [] OTHER       -> <<"1", "2">>

S_hero     == <<"h","e","r","o">>
S_hero2    == <<"h","e","r","o","-","2">>
T_HeroShot == <<"H","e","r","o"," ","S","h","o","t">>
T_x        == <<"x">>

P_visual == <<"v","i","s","u","a","l","-">>

\* --gen-slugs, --prefix, --start, --pad
Configs ==
    [mode : {"sequential", "filename", ""}, prefix : {P_visual, <<>>},
     start : {SLUG_START}, pad : {SLUG_PAD}]
    \cup [mode : {"sequential"}, prefix : {P_visual, <<>>},
          start : {9}, pad : {1}]

\* ROOT_DIR as given on the command line: without and with a trailing "/"
RootDirs == {<<"r">>, <<"r", "/">>}

HdrLower == <<"filename", "slug", "title">>
HdrCaps  == <<"Filename", "Slug", "Title">>
HdrFile  == <<"file", "slug">>

Rows1 == << <<F_a, S_hero, T_HeroShot>> >>
Rows2 == << <<F_a, S_hero, T_HeroShot>>, <<F_photo, S_hero, <<>> >> >>
Rows3 == << <<F_da, S_hero, T_HeroShot>>, <<F_photo, S_hero2, <<>> >>,
            <<F_bang, <<>>, T_x>> >>
Rows4 == << <<F_a, S_hero>>, <<F_photo, S_hero2>> >>

\* --slugs: no file, or a CSV file with its header line and its rows
NoTable == [given |-> FALSE, header |-> <<>>, rows |-> <<>>]
Table(h, r) == [given |-> TRUE, header |-> h, rows |-> r]
Tables == {NoTable, Table(HdrLower, Rows1), Table(HdrCaps, Rows1),
           Table(HdrLower, Rows2), Table(HdrLower, Rows3), Table(HdrFile, Rows4)}

\* the rename options on the command line
ArgLists == {<<>>, <<"--rename">>, <<"--rename-confirm">>}

\* files of ROOT_DIR that get no row in images.csv (identify gave no size)
ExtraFiles == {{}, {F_hero}}

\* "${f#$ROOT_DIR/}": f without the prefix ROOT_DIR/ when it starts with it
StripRoot(f, root) ==
    LET pre == root \o <<"/">>
    IN  IF Len(f) >= Len(pre) /\ Take(f, Len(pre)) = pre
        THEN Drop(f, Len(pre))
        ELSE f

\* the orders in which find may list up to k of the files
Listings(k) ==
    UNION {{f \in [1..m -> FileNames] : \A i, j \in 1..m : i # j => f[i] # f[j]}
           : m \in 0..k}

(* --------------------------- manifest builder ------------------------- *)

\* csv.DictReader: one row as a dictionary keyed by the header's names
DictRow(header, values) ==
    [c \in Range(header) |->
        values[CHOOSE i \in DOMAIN header : header[i] = c]]

\* r.get(k), read through `or` and `if`: None and "" are both false, both <<>>
Get(r, k) == IF k \in DOMAIN r THEN r[k] ELSE <<>>

\* a or b
OrElse(a, b) == IF a # <<>> THEN a ELSE b

EmptyMap == [k \in {} |-> <<>>]
Put(m, k, v) == [x \in DOMAIN m \cup {k} |-> IF x = k THEN v ELSE m[x]]

\* cols = [c.lower() for c in rdr.fieldnames]; the loader computes this list
\* and does not read it
ColLower(c) ==
    CASE c = "Filename" -> "filename"
      [] c = "Slug"     -> "slug"
      [] c = "Title"    -> "title"
      [] OTHER          -> c
cols(header) == [i \in DOMAIN header |-> ColLower(header[i])]

\* the fields the loader takes from one row of the slug table
RowFields(r) ==
    [fname |-> OrElse(Get(r, "filename"), OrElse(Get(r, "file"), Get(r, "name"))),
     slug  |-> Get(r, "slug"),
     title |-> OrElse(Get(r, "title"), <<>>)]

\* slug_map and title_map after the first k rows of the table
RECURSIVE LoadMaps(_, _)
LoadMaps(t, k) ==
    IF k = 0 THEN [slug_map |-> EmptyMap, title_map |-> EmptyMap]
    ELSE LET m == LoadMaps(t, k - 1)
             x == RowFields(DictRow(t.header, t.rows[k]))
         IN  IF x.fname # <<>> /\ x.slug # <<>>
             THEN [slug_map  |-> Put(m.slug_map, basename(x.fname), x.slug),
                   title_map |-> Put(m.title_map, basename(x.fname), x.title)]
             ELSE m

\* the maps for --slugs (both empty when no file is named)
LoadTable(t) ==
    IF t.given THEN LoadMaps(t, Len(t.rows))
    ELSE [slug_map |-> EmptyMap, title_map |-> EmptyMap]

\* variant of ReadRows: each row is put in front of the list
ReadRows_prepend(csv) ==
    [i \in DOMAIN csv |->
        [filename |-> csv[Len(csv) + 1 - i].filename,
         width |-> csv[Len(csv) + 1 - i].width,
         height |-> csv[Len(csv) + 1 - i].height]]

\* the rows of images.csv as the builder reads them: appended in file order
ReadRows(csv) ==
    [i \in DOMAIN csv |->
        [filename |-> csv[i].filename, width |-> csv[i].width,
         height |-> csv[i].height]]

\* s with "-i" appended
Suffixed(s, i) == s \o <<"-">> \o str(i)

\* dedupe(s): the loop that looks for a free name, from candidate t and next i
RECURSIVE dedupeLoop(_, _, _, _)
dedupeLoop(s, t, i, sn) ==
    IF t \in sn THEN dedupeLoop(s, Suffixed(s, i), i + 1, sn) ELSE t

\* variant of dedupe: the slug is returned as computed
dedupe_none(s, sn) == s

\* variant of dedupe: the suffix counter starts at 1
dedupe_fromOne(s, sn) == dedupeLoop(s, s, 1, sn)

dedupe(s, sn) == dedupeLoop(s, s, 2, sn)

\* variant of Assign: sequential mode is tested before the table's slug
Assign_modeFirst(fn, smap, tmap, md, pre, cnt, pd) ==
    LET s0 == IF DOMAIN smap # {} /\ fn \in DOMAIN smap THEN smap[fn] ELSE <<>>
        t0 == IF DOMAIN smap # {} /\ fn \in DOMAIN tmap THEN tmap[fn] ELSE <<>>
        core == slugify(fn)
        gen == IF pre # <<>> THEN pre \o core ELSE core
    IN  IF md = "sequential"
        THEN [slug |-> pre \o zfill(str(cnt), pd), title |-> t0,
              branch |-> "sequential", n |-> cnt + 1]
        ELSE IF s0 = <<>> /\ md = "filename"
        THEN [slug |-> gen, title |-> t0, branch |-> "filename", n |-> cnt]
        ELSE IF s0 = <<>>
        THEN [slug |-> gen, title |-> t0, branch |-> "default", n |-> cnt]
        ELSE [slug |-> s0, title |-> t0, branch |-> "external", n |-> cnt]

\* variant of Assign: in sequential mode every row takes a number
Assign_countAll(fn, smap, tmap, md, pre, cnt, pd) ==
    LET s0 == IF DOMAIN smap # {} /\ fn \in DOMAIN smap THEN smap[fn] ELSE <<>>
        t0 == IF DOMAIN smap # {} /\ fn \in DOMAIN tmap THEN tmap[fn] ELSE <<>>
        core == slugify(fn)
        gen == IF pre # <<>> THEN pre \o core ELSE core
    IN  IF s0 = <<>> /\ md = "sequential"
        THEN [slug |-> pre \o zfill(str(cnt), pd), title |-> t0,
              branch |-> "sequential", n |-> cnt + 1]
        ELSE IF s0 = <<>> /\ md = "filename"
        THEN [slug |-> gen, title |-> t0, branch |-> "filename", n |-> cnt]
        ELSE IF s0 = <<>>
        THEN [slug |-> gen, title |-> t0, branch |-> "default", n |-> cnt]
        ELSE [slug |-> s0, title |-> t0, branch |-> "external",
              n |-> IF md = "sequential" THEN cnt + 1 ELSE cnt]

\* the body of the assignment loop before dedupe: slug, title, the branch
\* taken and the counter after it
Assign(fn, smap, tmap, md, pre, cnt, pd) ==
    LET s0 == IF DOMAIN smap # {} /\ fn \in DOMAIN smap THEN smap[fn] ELSE <<>>
        t0 == IF DOMAIN smap # {} /\ fn \in DOMAIN tmap THEN tmap[fn] ELSE <<>>
        core == slugify(fn)
        gen == IF pre # <<>> THEN pre \o core ELSE core
    IN  IF s0 = <<>> /\ md = "sequential"
        THEN [slug |-> pre \o zfill(str(cnt), pd), title |-> t0,
              branch |-> "sequential", n |-> cnt + 1]
        ELSE IF s0 = <<>> /\ md = "filename"
        THEN [slug |-> gen, title |-> t0, branch |-> "filename", n |-> cnt]
        ELSE IF s0 = <<>>
        THEN [slug |-> gen, title |-> t0, branch |-> "default", n |-> cnt]
        ELSE [slug |-> s0, title |-> t0, branch |-> "external", n |-> cnt]

\* csv.DictWriter(fieldnames=[filename,width,height,slug,title]).writerows
WriteRows(rs) ==
    [i \in DOMAIN rs |->
        [filename |-> rs[i].filename, width |-> rs[i].width,
         height |-> rs[i].height, slug |-> rs[i].slug, title |-> rs[i].title]]

(* ------------------------------ rename pass --------------------------- *)

\* sys.argv[k] == "True"
PyTrue(a) == a = "True"

\* os.path.isdir / os.path.exists on the set of files fs
IsDir(p, fs_) ==
    \E f \in fs_ : Len(f) > Len(p) /\ Take(f, Len(p) + 1) = p \o <<"/">>
Exists(p, fs_) == p \in fs_ \/ IsDir(p, fs_)

\* the files a row's source may resolve to: the exact path when it is a
\* file, else the first file of os.walk with the same basename (the root
\* directory is walked first, the subdirectories in listing order); the empty
\* set is a miss
Resolve(root, filename, fs_) ==
    LET src  == join(root, filename)
        same == {f \in fs_ : basename(f) = basename(src)}
        Above(g, f) == /\ dirname(g) # dirname(f)
                       /\ Len(dirname(f)) > Len(dirname(g))
                       /\ Take(dirname(f), Len(dirname(g)) + 1)
                            = dirname(g) \o <<"/">>
    IN  IF src \in fs_ THEN {src}
        ELSE {f \in same : ~ \E g \in same : Above(g, f)}

\* the destination planned for source src and slug sl
PlannedDst(src, sl) == join(dirname(src), sl \o splitext(src)[2])

\* variant of ShouldExecute: "or" in place of "and"
ShouldExecute_or(dry, conf) == ~dry \/ conf

\* if not dry_run and confirm
ShouldExecute(dry, conf) == ~dry /\ conf

\* the "avoid clobber" loop: candidate base-i.ext, from i
RECURSIVE ClobberLoop(_, _, _, _)
ClobberLoop(base, ext, i, fs_) ==
    IF Exists(Suffixed(base, i) \o ext, fs_)
    THEN ClobberLoop(base, ext, i + 1, fs_)
    ELSE Suffixed(base, i) \o ext

\* variant of AvoidClobber: the planned destination is used as it is
AvoidClobber_none(dst, fs_) == dst

\* the path handed to shutil.move for planned destination dst
AvoidClobber(dst, fs_) ==
    IF Exists(dst, fs_)
    THEN ClobberLoop(splitext(dst)[1], splitext(dst)[2], 2, fs_)
    ELSE dst

(* -------------------------------- state ------------------------------- *)

VARIABLES
    pc,              \* where the script is
    ROOT_DIR,        \* first argument of the script
    DO_RENAME,       \* shell variables, "true" or "false"
    DRY_RUN,
    RENAME_CONFIRM,
    mode, prefix, start, pad,   \* arguments of the builder
    img_csv,         \* images.csv: the rows the image loop wrote
    slug_csv,        \* the --slugs file
    rows,            \* builder: rows read, slug and title added in place
    slug_map, title_map,
    seen,            \* builder: slugs emitted so far
    n,               \* builder: sequence counter
    idx,             \* builder: row the assignment loop is at
    hist,            \* per row assigned: slug before dedupe, branch, n and seen before
    out_csv,         \* images_with_slugs.csv
    fs,              \* the files under ROOT_DIR
    argv,            \* rename pass: sys.argv[3], sys.argv[4]
    dry_run, confirm,
    moves,           \* rename pass: planned (src, dst)
    pidx,            \* rename pass: manifest row the planner is at
    stdout,          \* rename pass: lines printed
    midx,            \* rename pass: move the execute loop is at
    used             \* rename pass: per move executed, the paths and the files before

vars == <<pc, ROOT_DIR, DO_RENAME, DRY_RUN, RENAME_CONFIRM, mode, prefix, start, pad,
          img_csv, slug_csv, rows, slug_map, title_map, seen, n, idx, hist,
          out_csv, fs, argv, dry_run, confirm, moves, pidx, stdout, midx, used>>

optVars     == <<ROOT_DIR, DO_RENAME, DRY_RUN, RENAME_CONFIRM, mode, prefix, start, pad,
                 img_csv, slug_csv>>
builderVars == <<rows, slug_map, title_map, seen, n, idx, hist, out_csv>>
renameVars  == <<argv, dry_run, confirm, moves, pidx, stdout, midx, used>>

\* the while/case loop over the command line, for the rename options
RECURSIVE ParseArgs(_, _)
ParseArgs(args, o) ==
    IF args = <<>> THEN o
    ELSE IF Head(args) = "--rename"
    THEN ParseArgs(Tail(args), [o EXCEPT !.DO_RENAME = "true"])
    ELSE IF Head(args) = "--rename-confirm"
    THEN ParseArgs(Tail(args), [o EXCEPT !.RENAME_CONFIRM = "true",
                                         !.DRY_RUN = "false", !.DO_RENAME = "true"])
    ELSE o

Defaults == [DO_RENAME |-> "false", DRY_RUN |-> "true", RENAME_CONFIRM |-> "false"]

Init ==
    \E listing \in Listings(MaxRecords), extra \in ExtraFiles, c \in Configs,
       t \in Tables, args \in ArgLists, root \in RootDirs :
        /\ pc = "slugs"
        /\ ROOT_DIR = root
        /\ DO_RENAME = ParseArgs(args, Defaults).DO_RENAME
        /\ DRY_RUN = ParseArgs(args, Defaults).DRY_RUN
        /\ RENAME_CONFIRM = ParseArgs(args, Defaults).RENAME_CONFIRM
        /\ mode = c.mode /\ prefix = c.prefix /\ start = c.start /\ pad = c.pad
        /\ img_csv = [i \in DOMAIN listing |->
                        [filename |-> StripRoot(join(root, listing[i]), root),
                         width |-> Dims(listing[i])[1],
                         height |-> Dims(listing[i])[2]]]
        /\ slug_csv = t
        /\ fs = {join(root, f) : f \in Range(listing) \cup extra}
        /\ rows = <<>> /\ slug_map = EmptyMap /\ title_map = EmptyMap
        /\ seen = {} /\ n = 0 /\ idx = 0 /\ hist = <<>> /\ out_csv = <<>>
        /\ argv = <<>> /\ dry_run = FALSE /\ confirm = FALSE /\ moves = <<>>
        /\ pidx = 0 /\ stdout = <<>> /\ midx = 0 /\ used = <<>>

(* ------------------------------- actions ------------------------------ *)

\* builder, up to the assignment loop: read images.csv, load the slug table
Load ==
    /\ pc = "slugs"
    /\ rows' = ReadRows(img_csv)
    /\ slug_map' = LoadTable(slug_csv).slug_map
    /\ title_map' = LoadTable(slug_csv).title_map
    /\ seen' = {}
    /\ n' = start
    /\ idx' = 1
    /\ pc' = "assign"
    /\ UNCHANGED <<optVars, hist, out_csv, fs, renameVars>>

\* one iteration of "for r in rows"
AssignSlug ==
    /\ pc = "assign" /\ idx <= Len(rows)
    /\ LET r == rows[idx]
           a == Assign(basename(r.filename), slug_map, title_map, mode, prefix, n, pad)
           t == dedupe(a.slug, seen)
       IN  /\ seen' = seen \cup {t}
           /\ n' = a.n
           /\ rows' = [rows EXCEPT ![idx] =
                         [filename |-> r.filename, width |-> r.width,
                          height |-> r.height, slug |-> t, title |-> a.title]]
           /\ hist' = Append(hist, [pre |-> a.slug, branch |-> a.branch,
                                    n0 |-> n, seen0 |-> seen])
    /\ idx' = idx + 1
    /\ UNCHANGED <<pc, optVars, slug_map, title_map, out_csv, fs, renameVars>>

\* write images_with_slugs.csv; the builder ends
WriteManifest ==
    /\ pc = "assign" /\ idx > Len(rows)
    /\ out_csv' = WriteRows(rows)
    /\ pc' = "rename_if"
    /\ UNCHANGED <<optVars, rows, slug_map, title_map, seen, n, idx, hist, fs,
                   renameVars>>

\* "if $DO_RENAME" is false: [done]
SkipRename ==
    /\ pc = "rename_if" /\ DO_RENAME = "false"
    /\ pc' = "done"
    /\ UNCHANGED <<optVars, builderVars, fs, renameVars>>

\* the rename program starts on arguments a: it decodes them
EnterRename(a) ==
    /\ argv' = a
    /\ dry_run' = PyTrue(a[1])
    /\ confirm' = PyTrue(a[2])
    /\ moves' = <<>>
    /\ pidx' = 1
    /\ pc' = "plan"
    /\ UNCHANGED <<optVars, builderVars, fs, stdout, midx, used>>

\* "if $DO_RENAME" is true: the script runs the rename program on
\* "$DRY_RUN" "$RENAME_CONFIRM"
StartRename ==
    /\ pc = "rename_if" /\ DO_RENAME = "true"
    /\ EnterRename(<<DRY_RUN, RENAME_CONFIRM>>)

\* the rename program run by itself on the manifest of a finished run, with
\* the argument spellings its decoder recognises
RenameAlone ==
    /\ pc = "done" /\ DO_RENAME = "false" /\ argv = <<>>
    /\ \E d, c \in {"True", "False"} : EnterRename(<<d, c>>)

\* one iteration of the planning loop over the manifest
PlanRow ==
    /\ pc = "plan" /\ pidx <= Len(out_csv)
    /\ LET r == out_csv[pidx]
           found == Resolve(ROOT_DIR, r.filename, fs)
       IN  IF found = {}
           THEN /\ stdout' = Append(stdout, [tag |-> "miss", arg |-> join(ROOT_DIR, r.filename)])
                /\ moves' = moves
           ELSE \E src \in found :
                  LET dst == PlannedDst(src, r.slug)
                  IN  /\ moves' = IF src = dst THEN moves
                                  ELSE Append(moves, <<src, dst>>)
                      /\ stdout' = stdout
    /\ pidx' = pidx + 1
    /\ UNCHANGED <<pc, optVars, builderVars, fs, argv, dry_run, confirm, midx, used>>

\* print the plan, then take the execute branch or the dry-run branch
ReportPlan ==
    /\ pc = "plan" /\ pidx > Len(out_csv)
    /\ IF ShouldExecute(dry_run, confirm)
       THEN /\ stdout' = Append(stdout, [tag |-> "plan", arg |-> moves])
            /\ midx' = 1
            /\ pc' = "exec"
       ELSE /\ stdout' = stdout \o <<[tag |-> "plan", arg |-> moves],
                                       [tag |-> "note", arg |-> <<>>]>>
            /\ midx' = midx
            /\ pc' = "done"
    /\ UNCHANGED <<optVars, builderVars, fs, argv, dry_run, confirm, moves, pidx, used>>

\* one iteration of the execute loop: avoid clobber, then shutil.move
\* (which raises when the source is gone)
ExecMove ==
    /\ pc = "exec" /\ midx <= Len(moves)
    /\ LET src == moves[midx][1]
           dst == AvoidClobber(moves[midx][2], fs)
       IN  IF src \in fs
           THEN /\ fs' = (fs \ {src}) \cup {dst}
                /\ used' = Append(used, [src |-> src, planned |-> moves[midx][2],
                                         dst |-> dst, before |-> fs])
                /\ midx' = midx + 1
                /\ pc' = pc
           ELSE /\ pc' = "failed"
                /\ UNCHANGED <<fs, used, midx>>
    /\ UNCHANGED <<optVars, builderVars, argv, dry_run, confirm, moves, pidx, stdout>>

\* the execute loop ends
Renamed ==
    /\ pc = "exec" /\ midx > Len(moves)
    /\ stdout' = Append(stdout, [tag |-> "ok", arg |-> <<>>])
    /\ pc' = "done"
    /\ UNCHANGED <<optVars, builderVars, fs, argv, dry_run, confirm, moves, pidx,
                   midx, used>>

Next ==
    \/ Load
    \/ AssignSlug
    \/ WriteManifest
    \/ SkipRename
    \/ StartRename
    \/ RenameAlone
    \/ PlanRow
    \/ ReportPlan
    \/ ExecMove
    \/ Renamed

Spec == Init /\ [][Next]_vars

(* ------------------------------- claims ------------------------------- *)

\* rows the assignment loop has been through
Assigned == 1..Len(hist)

\* key under which row i is looked up in the slug table
Key(i) == basename(img_csv[i].filename)

\* the counter and the set of emitted slugs right after row i
NAfter(i) == IF i < Len(hist) THEN hist[i + 1].n0 ELSE n
SeenAfter(i) == IF i < Len(hist) THEN hist[i + 1].seen0 ELSE seen

\* is there a line with this tag on the rename pass's output
Printed(tag) == \E i \in DOMAIN stdout : stdout[i].tag = tag

\* C1 (Uniqueness): the slug dedupe returns for a row is not among the slugs
\* emitted before it and is added to them, so no two rows assigned so far,
\* and no two rows of the written manifest, carry the same slug.
C1_Uniqueness ==
    /\ \A i \in Assigned :
          /\ rows[i].slug \notin hist[i].seen0
          /\ rows[i].slug \in SeenAfter(i)
    /\ \A i, j \in Assigned : i # j => rows[i].slug # rows[j].slug
    /\ \A i, j \in DOMAIN out_csv : i # j => out_csv[i].slug # out_csv[j].slug

\* a manifest is written in which dedupe had to rename a colliding slug
C1_Witness ==
    /\ Len(out_csv) >= 2
    /\ \E i \in Assigned : hist[i].pre \in hist[i].seen0

\* C2 (Totality): every row of the output manifest has a non-empty slug.
C2_Totality ==
    \A i \in DOMAIN out_csv : out_csv[i].slug # <<>>

\* C3 (External-priority): a row whose basename is a key of the loaded slug
\* table gets, before dedupe, the table's slug, and the table's title,
\* whatever the mode; no generation branch is taken for it and the sequence
\* counter is the same after the row as before it.
C3_ExternalPriority ==
    \A i \in Assigned :
        Key(i) \in DOMAIN slug_map =>
            /\ hist[i].pre = slug_map[Key(i)]
            /\ rows[i].title = title_map[Key(i)]
            /\ hist[i].branch = "external"
            /\ NAfter(i) = hist[i].n0

\* in sequential mode a row in a subdirectory is resolved by the table, by
\* its basename, right after a row that took a sequence number
C3_Witness ==
    /\ mode = "sequential"
    /\ \E i \in Assigned :
          /\ i > 1
          /\ hist[i - 1].branch = "sequential"
          /\ Key(i) \in DOMAIN slug_map
          /\ Key(i) # img_csv[i].filename
          /\ rows[i].title = T_HeroShot

\* C4 (Order preservation and pass-through): the rows the builder holds, and
\* the rows it writes, are the rows of images.csv, one for one and in the same
\* order, with filename, width and height as read.
C4_OrderPassThrough ==
    /\ pc # "slugs" =>
          /\ Len(rows) = Len(img_csv)
          /\ \A i \in DOMAIN rows :
                /\ rows[i].filename = img_csv[i].filename
                /\ rows[i].width = img_csv[i].width
                /\ rows[i].height = img_csv[i].height
    /\ pc \notin {"slugs", "assign"} =>
          /\ Len(out_csv) = Len(img_csv)
          /\ \A i \in DOMAIN out_csv :
                /\ out_csv[i].filename = img_csv[i].filename
                /\ out_csv[i].width = img_csv[i].width
                /\ out_csv[i].height = img_csv[i].height
                /\ out_csv[i].slug = rows[i].slug
                /\ out_csv[i].title = rows[i].title

\* a manifest of three rows is written, one of them with a title from the table
C4_Witness ==
    /\ pc = "rename_if"
    /\ Len(out_csv) = 3
    /\ \E i \in DOMAIN out_csv : out_csv[i].title # <<>>

\* C5 (Confirm phase): a run with --rename-confirm that planned moves ends
\* with every planned move carried out, and not in the dry-run branch.
C5_ConfirmExecutes ==
    (pc = "done" /\ RENAME_CONFIRM = "true" /\ moves # <<>>) =>
        /\ ~ Printed("note")
        /\ Len(used) = Len(moves)
        /\ \A k \in DOMAIN moves : moves[k][1] \notin fs

\* C6 (Plan before mutation): a step changes the files only in the execute
\* loop, when every manifest row has been planned and the plan, complete, has
\* been printed; and no step of a run with --rename alone changes the files.
C6_PlanBeforeMutation ==
    [][/\ fs' # fs =>
            /\ pc = "exec"
            /\ pidx > Len(out_csv)
            /\ \E i \in DOMAIN stdout :
                  stdout[i].tag = "plan" /\ stdout[i].arg = moves
       /\ (DO_RENAME = "true" /\ RENAME_CONFIRM = "false") => fs' = fs
      ]_vars

\* the execute loop has moved a file, after a plan of two moves
C6_Witness ==
    /\ pc = "exec"
    /\ Len(moves) = 2
    /\ Len(used) = 1
    /\ fs # used[1].before

\* the paths base-2.ext, base-3.ext, ... of a planned destination
Alt(dst, k) == Suffixed(splitext(dst)[1], k) \o splitext(dst)[2]

\* C7 (No clobber): the path handed to each move did not exist right before
\* it; it is the planned destination when that is free, else base-k.ext for
\* the least k >= 2 that is free; the plan, as built and as printed, keeps
\* the planned destination <dir>/<slug><ext>.
C7_NoClobber ==
    \A k \in DOMAIN used :
        LET u == used[k]
        IN  /\ ~ Exists(u.dst, u.before)
            /\ ~ Exists(u.planned, u.before) => u.dst = u.planned
            /\ Exists(u.planned, u.before) =>
                  \E j \in 2..(Cardinality(u.before) + 2) :
                      /\ u.dst = Alt(u.planned, j)
                      /\ \A i \in 2..(j - 1) : Exists(Alt(u.planned, i), u.before)
            /\ moves[k] = <<u.src, u.planned>>
            /\ \E i \in DOMAIN stdout :
                  stdout[i].tag = "plan" /\ stdout[i].arg[k][2] = u.planned
            /\ \E i \in DOMAIN out_csv :
                  u.planned = PlannedDst(u.src, out_csv[i].slug)

\* a move whose planned destination was created by an earlier move of the
\* same pass is given the next free name
C7_Witness ==
    \E k \in DOMAIN used :
        /\ k > 1
        /\ \E j \in 1..(k - 1) :
              /\ used[j].dst = used[k].planned
              /\ used[j].dst \notin used[j].before
        /\ used[k].dst # used[k].planned

\* C8 (Header case): the lookup loaded from a slug table is the lookup the
\* same rows give under the lower-cased header.
C8_HeaderCaseInsensitive ==
    (pc # "slugs" /\ slug_csv.given) =>
        /\ slug_map = LoadTable(Table(cols(slug_csv.header), slug_csv.rows)).slug_map
        /\ title_map = LoadTable(Table(cols(slug_csv.header), slug_csv.rows)).title_map

\* C9 (Dedup rule): with s the computed slug of a row and E the slugs emitted
\* before it, the output slug is s when s is not in E, else s-k for the least
\* k >= 2 with s-k not in E, whichever branch computed s; E grows by exactly
\* the output slug, and E is the set of the output slugs of the earlier rows.
C9_DedupRule ==
    \A i \in Assigned :
        LET s == hist[i].pre
            E == hist[i].seen0
            o == rows[i].slug
        IN  /\ E = {rows[j].slug : j \in 1..(i - 1)}
            /\ s \notin E => o = s
            /\ s \in E =>
                  \E k \in 2..(Cardinality(E) + 2) :
                      /\ o = Suffixed(s, k)
                      /\ o \notin E
                      /\ \A j \in 2..(k - 1) : Suffixed(s, j) \in E
            /\ SeenAfter(i) = E \cup {o}

\* two rows given the same slug by the table come out as s and s-2
C9_Witness ==
    \E i, j \in Assigned :
        /\ i < j
        /\ hist[i].branch = "external" /\ hist[j].branch = "external"
        /\ hist[i].pre = hist[j].pre
        /\ rows[i].slug = hist[i].pre
        /\ rows[j].slug = Suffixed(hist[i].pre, 2)

\* rows up to i that the slug table does not resolve
Unresolved(i) == {m \in 1..i : Key(m) \notin DOMAIN slug_map}

\* C10 (Sequential numbering): in sequential mode the j-th row the table does
\* not resolve gets prefix + zeroPad(start + j - 1, pad) and moves the counter
\* from start + j - 1 to start + j; a row the table resolves leaves the counter
\* alone; in the other modes the counter stays at start.
C10_SequentialNumbering ==
    /\ mode = "sequential" =>
          /\ \A i \in Assigned :
                LET j == Cardinality(Unresolved(i))
                IN  IF i \in Unresolved(i)
                    THEN /\ hist[i].pre = prefix \o zfill(str(start + j - 1), pad)
                         /\ hist[i].n0 = start + j - 1
                         /\ NAfter(i) = start + j
                    ELSE NAfter(i) = hist[i].n0
          /\ pc # "slugs" => n = start + Cardinality(Unresolved(Len(hist)))
    /\ (mode # "sequential" /\ pc # "slugs") => n = start

\* a row resolved by the table sits between two rows that take consecutive
\* numbers
C10_Witness ==
    /\ mode = "sequential"
    /\ Len(hist) = 3
    /\ hist[1].branch = "sequential"
    /\ hist[2].branch = "external"
    /\ hist[3].branch = "sequential"
    /\ hist[3].pre = prefix \o zfill(str(start + 1), pad)

====
